---- MODULE Spec2Model ----
(***************************************************************************)
(* A model of src/src/lib.rs: partition(), a balance-seeking variant of    *)
(* Hoare partitioning, and its client quicksort().                         *)
(*                                                                         *)
(* Indices are the code's 0-based usize indices into the sub-slice that a  *)
(* call was given; `base` is the offset of that sub-slice in the client's  *)
(* array, so element i of the sub-slice is slice[base + i + 1] here.       *)
(* One step of the model is one call set-up, one iteration of partition's  *)
(* main loop, or one call/return of quicksort.  Arithmetic is the checked  *)
(* usize arithmetic of a debug build: an underflow, a failed assert! or an *)
(* index out of bounds is a panic, recorded in `fault`.  The cfg(test)     *)
(* scans (lines 60-67, 111-119) are not part of the library build and are  *)
(* stated as properties instead.                                           *)
(***************************************************************************)
EXTENDS Integers, Sequences, FiniteSets, Bags, TLC

\* Longest client array explored.
MaxLen == 7
\* Elements are 0..MaxVal (any totally ordered type; integers stand for it).
MaxVal == 2
\* Number of times the client calls quicksort on the same array.
MaxCalls == 2
\* Longest array, and largest element, explored under fairness.
LiveLen == 6
LiveVal == 1

Values == 0..MaxVal

VARIABLES
    slice,      \* the client's array
    input,      \* the array as it was when the client made its latest call
    mode,       \* which public function the client has called, or "none"
    pc,         \* "call" | "loop" | "returned" | "qs" | "done" | "fault"
    fault,      \* "none", or the panic message
    stack,      \* quicksort's call stack: frames [base, len, at, pivot_index]
    base,       \* offset of partition's sub-slice in the array
    nslice,     \* partition: nslice
    low,        \* partition: low
    high,       \* partition: high
    low_max,    \* partition: low_max
    high_min,   \* partition: high_min
    place,      \* partition: place, as chosen in the latest iteration
    pivot,      \* partition's return value
    pcalls,     \* number of partition calls since the client's latest call
    calls       \* number of client calls made

vars == <<slice, input, mode, pc, fault, stack, base, nslice, low, high,
          low_max, high_min, place, pivot, pcalls, calls>>

pstate == <<base, nslice, low, high, low_max, high_min, place, pivot>>

----------------------------------------------------------------------------
\* Slice primitives.

\* slice[i] of the sub-slice at offset b.
At(s, b, i) == s[b + i + 1]

\* The bounds check of slice[i] on a sub-slice of length n.
InBounds(n, i) == i >= 0 /\ i < n

\* A buggy swap that overwrites one side instead of exchanging.
SwapClobber(s, b, i, j) == [s EXCEPT ![b + i + 1] = s[b + j + 1]]

\* slice.swap(i, j)
Swap(s, b, i, j) ==
    [s EXCEPT ![b + i + 1] = s[b + j + 1], ![b + j + 1] = s[b + i + 1]]

----------------------------------------------------------------------------
\* partition: the tests of its control flow.

\* if nslice < 2 { panic!(...) }
TooShort(n) == n < 2

\* A cleanup threshold of 1, as in an earlier variant of the loop.
AlmostDoneGapOne(lo, hi) == lo + 1 >= hi

\* if low + 3 >= high
AlmostDone(lo, hi) == lo + 3 >= hi

\* A balance test with its + 1 on the wrong side.
OutOfBalanceWrongSide(nsmall, nlarge) == nsmall < nlarge + 1

\* nlow + 1 < nhigh, and symmetrically nhigh + 1 < nlow
OutOfBalance(nsmall, nlarge) == nsmall + 1 < nlarge

\* A chooser that corrects the balance without looking at the values.
ChoosePlaceBlindBalance(s, b, n, lo, hi, lm, hm) ==
    LET nlow == lo + 1
        nhigh == n - hi
    IN  IF At(s, b, lo) < At(s, b, lm) /\ At(s, b, hi) < At(s, b, lm)
        THEN "LOW"
        ELSE IF At(s, b, lo) > At(s, b, hm) /\ At(s, b, hi) > At(s, b, hm)
        THEN "HIGH"
        ELSE IF OutOfBalance(nlow, nhigh) THEN "LOW"
        ELSE IF OutOfBalance(nhigh, nlow) THEN "HIGH"
        ELSE "SPLIT"

\* "Figure out where to place the next two values": lo and hi are the
\* already advanced low and high.
ChoosePlace(s, b, n, lo, hi, lm, hm) ==
    LET nlow == lo + 1
        nhigh == n - hi
    IN  IF At(s, b, lo) < At(s, b, lm) /\ At(s, b, hi) < At(s, b, lm)
        THEN "LOW"
        ELSE IF At(s, b, lo) > At(s, b, hm) /\ At(s, b, hi) > At(s, b, hm)
        THEN "HIGH"
        ELSE IF /\ OutOfBalance(nlow, nhigh)
                /\ At(s, b, lo) <= At(s, b, hm)
                /\ At(s, b, hi) <= At(s, b, hm)
        THEN "LOW"
        ELSE IF /\ OutOfBalance(nhigh, nlow)
                /\ At(s, b, lo) >= At(s, b, lm)
                /\ At(s, b, hi) >= At(s, b, lm)
        THEN "HIGH"
        ELSE "SPLIT"

----------------------------------------------------------------------------
\* partition: the outcome of one pass through the loop body, as a record.

\* The locals after a pass that went on to the next iteration.
Going(s, lo, hi, lm, hm, pl) ==
    [fault |-> "none", returned |-> FALSE, slice |-> s, low |-> lo,
     high |-> hi, low_max |-> lm, high_min |-> hm, place |-> pl, pivot |-> 0]

\* The locals after a pass that executed `return pivot`.
Returned(s, lo, hi, lm, hm, pv) ==
    [fault |-> "none", returned |-> TRUE, slice |-> s, low |-> lo,
     high |-> hi, low_max |-> lm, high_min |-> hm, place |-> "NONE",
     pivot |-> pv]

\* A panic: the slice is as the pass left it when it panicked.
Panic(msg, s, lo, hi, lm, hm) ==
    [fault |-> msg, returned |-> FALSE, slice |-> s, low |-> lo,
     high |-> hi, low_max |-> lm, high_min |-> hm, place |-> "NONE",
     pivot |-> 0]

OutOfRange == "index out of bounds"
Underflow == "attempt to subtract with overflow"
AssertOrdered == "assertion failed: slice[low_max] <= slice[high_min]"
AssertGap == "assertion failed: high > low"
AssertRoom == "assertion failed: low + 1 < high"
ShortSlice == "partition of short slice"

----------------------------------------------------------------------------
\* partition: the clean-up pass.

\* for j in (i + 1)..ngap { if slice[low+i] > slice[low+j] { swap } }
RECURSIVE SelectInner(_, _, _, _, _, _)
SelectInner(s, b, lo, i, j, ngap) ==
    IF j >= ngap THEN s
    ELSE SelectInner(IF At(s, b, lo + i) > At(s, b, lo + j)
                     THEN Swap(s, b, lo + i, lo + j) ELSE s,
                     b, lo, i, j + 1, ngap)

\* for i in 1..ngap { ... }: the selection sort of the gap values.
RECURSIVE SelectionSort(_, _, _, _, _)
SelectionSort(s, b, lo, i, ngap) ==
    IF i >= ngap THEN s
    ELSE SelectionSort(SelectInner(s, b, lo, i, i + 1, ngap),
                       b, lo, i + 1, ngap)

\* The indices the selection sort reads: low+i and low+j for 1 <= i < j < ngap.
SelectionSortReads(lo, ngap) ==
    UNION {{lo + x[1], lo + x[2]} :
           x \in {y \in (1..(ngap - 1)) \X (1..(ngap - 1)) : y[1] < y[2]}}

\* for _ in 1..ngap { if slice[low+1] <= slice[high_min] { low += 1; ... }
\* else { break } }: k counts the iterations.
RECURSIVE Migrate(_, _, _, _, _, _, _, _)
Migrate(s, b, n, k, ngap, lo, lm, hm) ==
    IF k >= ngap THEN [oob |-> FALSE, low |-> lo, low_max |-> lm]
    ELSE IF ~InBounds(n, lo + 1) \/ ~InBounds(n, hm) \/ ~InBounds(n, lm)
    THEN [oob |-> TRUE, low |-> lo, low_max |-> lm]
    ELSE IF At(s, b, lo + 1) <= At(s, b, hm)
    THEN Migrate(s, b, n, k + 1, ngap, lo + 1,
                 IF At(s, b, lo + 1) > At(s, b, lm) THEN lo + 1 ELSE lm,
                 hm)
    ELSE [oob |-> FALSE, low |-> lo, low_max |-> lm]

\* A clean-up that leaves the pivot position as it is.
PivotSwapOmitted(s, b, lm, pv) == s

\* if low_max != pivot { slice.swap(low_max, pivot) }
PivotSwap(s, b, lm, pv) == IF lm # pv THEN Swap(s, b, lm, pv) ELSE s

\* The body of `if low + 3 >= high { ... return pivot }`.
CleanUp(s, b, n, lo, hi, lm, hm) ==
    IF ~(hi > lo) THEN Panic(AssertGap, s, lo, hi, lm, hm)
    ELSE
    LET ngap == hi - lo
    IN  IF \E i \in SelectionSortReads(lo, ngap) : ~InBounds(n, i)
        THEN Panic(OutOfRange, s, lo, hi, lm, hm)
        ELSE
        LET s1 == SelectionSort(s, b, lo, 1, ngap)
            m == Migrate(s1, b, n, 1, ngap, lo, lm, hm)
        IN  IF m.oob THEN Panic(OutOfRange, s1, m.low, hi, m.low_max, hm)
            ELSE
            LET pv == m.low
                s2 == PivotSwap(s1, b, m.low_max, pv)
            IN  IF ~(At(s2, b, m.low_max) <= At(s2, b, hm))
                THEN Panic(AssertOrdered, s2, m.low, hi, m.low_max, hm)
                ELSE Returned(s2, m.low, hi, m.low_max, hm, pv)

----------------------------------------------------------------------------
\* partition: the three placements.  lo and hi are the advanced low, high.

\* A low placement that updates low_max for the first value only.
PlaceLowOneUpdate(s, b, n, lo, hi, lm, hm) ==
    IF ~(lo + 1 < hi) THEN Panic(AssertRoom, s, lo, hi, lm, hm)
    ELSE IF ~InBounds(n, lo + 1) \/ ~InBounds(n, hi)
    THEN Panic(OutOfRange, s, lo, hi, lm, hm)
    ELSE
    LET s1 == Swap(s, b, lo + 1, hi)
        lm1 == IF At(s1, b, lo) > At(s1, b, lm) THEN lo ELSE lm
    IN  Going(s1, lo + 1, hi + 1, lm1, hm, "LOW")

\* P::LOW => { ... }
PlaceLow(s, b, n, lo, hi, lm, hm) ==
    IF ~(lo + 1 < hi) THEN Panic(AssertRoom, s, lo, hi, lm, hm)
    ELSE IF ~InBounds(n, lo + 1) \/ ~InBounds(n, hi)
    THEN Panic(OutOfRange, s, lo, hi, lm, hm)
    ELSE
    LET s1 == Swap(s, b, lo + 1, hi)
        lm1 == IF At(s1, b, lo) > At(s1, b, lm) THEN lo ELSE lm
        lm2 == IF At(s1, b, lo + 1) > At(s1, b, lm1) THEN lo + 1 ELSE lm1
    IN  Going(s1, lo + 1, hi + 1, lm2, hm, "LOW")

\* P::HIGH => { ... }
PlaceHigh(s, b, n, lo, hi, lm, hm) ==
    IF ~(lo + 1 < hi) THEN Panic(AssertRoom, s, lo, hi, lm, hm)
    ELSE IF hi < 1 THEN Panic(Underflow, s, lo, hi, lm, hm)
    ELSE IF ~InBounds(n, lo) \/ ~InBounds(n, hi - 1)
    THEN Panic(OutOfRange, s, lo, hi, lm, hm)
    ELSE
    LET s1 == Swap(s, b, lo, hi - 1)
        hm1 == IF At(s1, b, hi) < At(s1, b, hm) THEN hi ELSE hm
        hm2 == IF At(s1, b, hi - 1) < At(s1, b, hm1) THEN hi - 1 ELSE hm1
    IN  IF lo < 1 THEN Panic(Underflow, s1, lo, hi, lm, hm2)
        ELSE Going(s1, lo - 1, hi - 1, lm, hm2, "HIGH")

\* P::SPLIT => { ... }
PlaceSplit(s, b, n, lo, hi, lm, hm) ==
    LET s1 == IF At(s, b, lo) > At(s, b, hi) THEN Swap(s, b, lo, hi) ELSE s
        lm1 == IF At(s1, b, lo) > At(s1, b, lm) THEN lo ELSE lm
        hm1 == IF At(s1, b, hi) < At(s1, b, hm) THEN hi ELSE hm
    IN  Going(s1, lo, hi, lm1, hm1, "SPLIT")

\* The panic, if any, of a pass before it has chosen a placement: the
\* assert! at the loop head and the checked arithmetic and indexing of
\* `high -= 1`, `nslice - high`, slice[low] and slice[high].
HeadPanic(s, b, n, lo, hi, lm, hm) ==
    IF ~InBounds(n, lm) \/ ~InBounds(n, hm) THEN OutOfRange
    ELSE IF ~(At(s, b, lm) <= At(s, b, hm)) THEN AssertOrdered
    ELSE IF AlmostDone(lo, hi) THEN "none"
    ELSE IF hi < 1 THEN Underflow
    ELSE IF n < hi - 1 THEN Underflow
    ELSE IF ~InBounds(n, lo + 1) \/ ~InBounds(n, hi - 1) THEN OutOfRange
    ELSE "none"

\* One pass through the body of `loop { ... }`, from the loop head.
LoopBody(s, b, n, lo, hi, lm, hm) ==
    IF HeadPanic(s, b, n, lo, hi, lm, hm) # "none"
    THEN Panic(HeadPanic(s, b, n, lo, hi, lm, hm), s, lo, hi, lm, hm)
    ELSE IF AlmostDone(lo, hi) THEN CleanUp(s, b, n, lo, hi, lm, hm)
    ELSE
    LET lo1 == lo + 1
        hi1 == hi - 1
        pl == ChoosePlace(s, b, n, lo1, hi1, lm, hm)
    IN  CASE pl = "LOW" -> PlaceLow(s, b, n, lo1, hi1, lm, hm)
          [] pl = "HIGH" -> PlaceHigh(s, b, n, lo1, hi1, lm, hm)
          [] OTHER -> PlaceSplit(s, b, n, lo1, hi1, lm, hm)

----------------------------------------------------------------------------
\* quicksort: the tests and ranges of its control flow.

\* A guard that lets a one-element slice through to partition.
NothingToSortEmptyOnly(n) == n < 1

\* A guard that takes a two-element slice for sorted.
NothingToSortUpToTwo(n) == n <= 2

\* if slice.len() <= 1 { return; }
NothingToSort(n) == n <= 1

\* &mut slice[.. pivot_index]: the length of the front half.
FrontLen(p) == p

\* A back half that still holds the pivot.
BackStartKeepsPivot(p) == p

\* &mut slice[pivot_index + 1 ..]: the start of the back half.
BackStart(p) == p + 1

Frame(b, n) == [base |-> b, len |-> n, at |-> "entry", pivot_index |-> 0]

Top == stack[Len(stack)]

Caller == SubSeq(stack, 1, Len(stack) - 1)

----------------------------------------------------------------------------
\* The state machine.

\* The client's array as constructed: Vec::with_capacity(n), empty.
Init ==
    /\ slice = <<>>
    /\ input = <<>>
    /\ mode = "none"
    /\ pc = "call"
    /\ fault = "none"
    /\ stack = <<>>
    /\ base = 0
    /\ nslice = 0
    /\ low = 0
    /\ high = 0
    /\ low_max = 0
    /\ high_min = 0
    /\ place = "NONE"
    /\ pivot = 0
    /\ pcalls = 0
    /\ calls = 0

\* The client fills its array before its first call: a.push(v), for an
\* array of at most maxlen elements drawn from 0..maxval.
Fill(maxlen, maxval) ==
    /\ pc = "call"
    /\ Len(slice) < maxlen
    /\ \E v \in 0..maxval :
          /\ slice' = Append(slice, v)
          /\ input' = Append(slice, v)
    /\ UNCHANGED <<mode, pc, fault, stack, pstate, pcalls, calls>>

Push == Fill(MaxLen, MaxVal)

PushSmall == Fill(LiveLen, LiveVal)

\* partition, from its entry to the loop head: the length check, the
\* ordering of the first and last elements and the set-up of the state.
EnterPartition(b, n) ==
    /\ pcalls' = pcalls + 1
    /\ base' = b
    /\ nslice' = n
    /\ place' = "NONE"
    /\ pivot' = 0
    /\ IF TooShort(n)
       THEN /\ fault' = ShortSlice
            /\ pc' = "fault"
            /\ UNCHANGED <<slice, low, high, low_max, high_min>>
       ELSE /\ slice' = IF At(slice, b, 0) > At(slice, b, n - 1)
                        THEN Swap(slice, b, 0, n - 1) ELSE slice
            /\ low' = 0
            /\ high' = n - 1
            /\ low_max' = 0
            /\ high_min' = n - 1
            /\ fault' = "none"
            /\ pc' = "loop"

\* The client calls partition(&mut a).
CallPartition ==
    /\ pc = "call"
    /\ mode' = "partition"
    /\ input' = slice
    /\ calls' = calls + 1
    /\ EnterPartition(0, Len(slice))
    /\ UNCHANGED stack

\* The effect of a pass r of the loop body on the state.
Advance(r) ==
    /\ slice' = r.slice
    /\ low' = r.low
    /\ high' = r.high
    /\ low_max' = r.low_max
    /\ high_min' = r.high_min
    /\ place' = r.place
    /\ pivot' = r.pivot
    /\ fault' = r.fault
    /\ pc' = IF r.fault # "none" THEN "fault"
             ELSE IF r.returned THEN "returned" ELSE "loop"
    /\ UNCHANGED <<input, mode, stack, base, nslice, pcalls, calls>>

Pass == LoopBody(slice, base, nslice, low, high, low_max, high_min)

Leaving ==
    \/ AlmostDone(low, high)
    \/ HeadPanic(slice, base, nslice, low, high, low_max, high_min) # "none"

Choice == ChoosePlace(slice, base, nslice, low + 1, high - 1, low_max, high_min)

\* The pass that leaves the loop: the clean-up and `return pivot`, or a
\* panic before a placement is chosen.
LoopCleanUp ==
    /\ pc = "loop"
    /\ Leaving
    /\ \E r \in {Pass} : Advance(r)

\* A pass that places both values in the low partition.
LoopPlaceLow ==
    /\ pc = "loop"
    /\ ~Leaving
    /\ Choice = "LOW"
    /\ \E r \in {Pass} : Advance(r)

\* A pass that places both values in the high partition.
LoopPlaceHigh ==
    /\ pc = "loop"
    /\ ~Leaving
    /\ Choice = "HIGH"
    /\ \E r \in {Pass} : Advance(r)

\* A pass that places one value in each partition.
LoopPlaceSplit ==
    /\ pc = "loop"
    /\ ~Leaving
    /\ Choice = "SPLIT"
    /\ \E r \in {Pass} : Advance(r)

\* The client calls quicksort(&mut a), for the first time or again on the
\* array the previous call left.
CallQuicksort ==
    /\ pc \in {"call", "done"}
    /\ calls < MaxCalls
    /\ mode' = "quicksort"
    /\ input' = slice
    /\ calls' = calls + 1
    /\ pcalls' = 0
    /\ stack' = <<Frame(0, Len(slice))>>
    /\ pc' = "qs"
    /\ UNCHANGED <<slice, fault, pstate>>

\* quicksort returns to its caller: another quicksort, or the client.
Return ==
    /\ stack' = Caller
    /\ pc' = IF Len(stack) = 1 THEN "done" ELSE "qs"
    /\ UNCHANGED <<slice, input, mode, fault, pstate, pcalls, calls>>

\* quicksort entered on a slice with nothing to sort.
QuicksortNothingToSort ==
    /\ pc = "qs"
    /\ Top.at = "entry"
    /\ NothingToSort(Top.len)
    /\ Return

\* let pivot_index = partition(slice);
QuicksortPartition ==
    /\ pc = "qs"
    /\ Top.at = "entry"
    /\ ~NothingToSort(Top.len)
    /\ EnterPartition(Top.base, Top.len)
    /\ stack' = Append(Caller, [Top EXCEPT !.at = "partition"])
    /\ UNCHANGED <<input, mode, calls>>

\* partition has returned: quicksort(&mut slice[.. pivot_index]);
QuicksortFront ==
    /\ pc = "returned"
    /\ mode = "quicksort"
    /\ IF FrontLen(pivot) > Top.len
       THEN /\ fault' = OutOfRange
            /\ pc' = "fault"
            /\ UNCHANGED stack
       ELSE /\ stack' = Append(Append(Caller,
                   [Top EXCEPT !.at = "front", !.pivot_index = pivot]),
                   Frame(Top.base, FrontLen(pivot)))
            /\ pc' = "qs"
            /\ UNCHANGED fault
    /\ UNCHANGED <<slice, input, mode, pstate, pcalls, calls>>

\* The front half is sorted: quicksort(&mut slice[pivot_index + 1 ..]);
QuicksortBack ==
    /\ pc = "qs"
    /\ Top.at = "front"
    /\ IF BackStart(Top.pivot_index) > Top.len
       THEN /\ fault' = OutOfRange
            /\ pc' = "fault"
            /\ UNCHANGED stack
       ELSE /\ stack' = Append(Append(Caller, [Top EXCEPT !.at = "back"]),
                   Frame(Top.base + BackStart(Top.pivot_index),
                         Top.len - BackStart(Top.pivot_index)))
            /\ UNCHANGED <<pc, fault>>
    /\ UNCHANGED <<slice, input, mode, pstate, pcalls, calls>>

\* The back half is sorted: quicksort returns.
QuicksortReturn ==
    /\ pc = "qs"
    /\ Top.at = "back"
    /\ Return

Next ==
    \/ Push
    \/ CallPartition
    \/ LoopCleanUp
    \/ LoopPlaceLow
    \/ LoopPlaceHigh
    \/ LoopPlaceSplit
    \/ CallQuicksort
    \/ QuicksortNothingToSort
    \/ QuicksortPartition
    \/ QuicksortFront
    \/ QuicksortBack
    \/ QuicksortReturn

Spec == Init /\ [][Next]_vars

\* The same program on the smaller arrays explored under fairness.
LiveNext ==
    \/ PushSmall
    \/ CallPartition
    \/ LoopCleanUp
    \/ LoopPlaceLow
    \/ LoopPlaceHigh
    \/ LoopPlaceSplit
    \/ CallQuicksort
    \/ QuicksortNothingToSort
    \/ QuicksortPartition
    \/ QuicksortFront
    \/ QuicksortBack
    \/ QuicksortReturn

\* The program takes its next step whenever it has one: it is sequential,
\* synchronous and nothing can suspend it.
FairSpec == Init /\ [][LiveNext]_vars /\ WF_vars(LiveNext)

----------------------------------------------------------------------------
\* Vocabulary of the properties.

\* Element i of the sub-slice partition is working on.
Elem(i) == At(slice, base, i)

Sorted(s) == \A i \in 1..(Len(s) - 1) : s[i] <= s[i + 1]

\* The multiset of the elements of s.
Multiset(s) == [v \in Values |-> Cardinality({i \in DOMAIN s : s[i] = v})]

Abs(x) == IF x < 0 THEN -x ELSE x

\* The sizes of the two partitions at the loop head.
NLow == low + 1
NHigh == nslice - high

\* One pass of the main loop that goes on to the next iteration.
Iteration == pc = "loop" /\ pc' = "loop"

\* The two gap values the next pass will look at.
GapLow == Elem(low + 1)
GapHigh == Elem(high - 1)

ForcedLow == GapLow < Elem(low_max) /\ GapHigh < Elem(low_max)
ForcedHigh == GapLow > Elem(high_min) /\ GapHigh > Elem(high_min)

----------------------------------------------------------------------------
\* C1: when partition returns index p on a slice of length n >= 2, every
\* element at an index <= p is <= the element at p, and every element at an
\* index >= p is >= the element at p.
C1_PartitionPostcondition ==
    pc = "returned" =>
        /\ nslice >= 2
        /\ pivot \in 0..(nslice - 1)
        /\ \A i \in 0..(nslice - 1) :
              /\ i <= pivot => Elem(i) <= Elem(pivot)
              /\ i >= pivot => Elem(i) >= Elem(pivot)

\* partition has returned a pivot strictly inside a slice it had to reorder.
C1_Witness ==
    /\ pc = "returned"
    /\ mode = "partition"
    /\ nslice >= 5
    /\ 0 < pivot /\ pivot < nslice - 1
    /\ slice # input

\* C2: when quicksort returns, the sequence is non-decreasing.
C2_SortedAfterQuicksort ==
    (mode = "quicksort" /\ pc = "done") => Sorted(slice)

\* quicksort has returned from an input that was not in order and that
\* holds a duplicate.
C2_Witness ==
    /\ mode = "quicksort"
    /\ pc = "done"
    /\ calls = 1
    /\ ~Sorted(input)
    /\ \E i, j \in DOMAIN input : i # j /\ input[i] = input[j]

\* C3: at every point of partition and of quicksort the sequence holds the
\* same multiset of elements as when the client made the call.
C3_MultisetPreserved ==
    /\ Len(slice) = Len(input)
    /\ Multiset(slice) = Multiset(input)

\* A call is under way or over and has moved elements.
C3_Witness ==
    /\ pc \in {"loop", "returned", "qs", "done"}
    /\ slice # input
    /\ Len(input) >= 4

\* C4 as claimed: after partition returns p, every element at an index <= p
\* is <= the element at p and every element at an index > p is strictly
\* greater than the element at p.
C4_StrictlyGreaterAbovePivot ==
    pc = "returned" =>
        \A i \in 0..(nslice - 1) :
            /\ i <= pivot => Elem(i) <= Elem(pivot)
            /\ i > pivot => Elem(i) > Elem(pivot)

\* C4 as amended: after partition returns p, every element at an index <= p
\* is <= the element at p and every element at an index > p is greater than
\* or equal to the element at p.
C4_NotLessAbovePivot ==
    pc = "returned" =>
        \A i \in 0..(nslice - 1) :
            IF i > pivot THEN Elem(i) >= Elem(pivot)
            ELSE Elem(i) <= Elem(pivot)

\* partition has returned with a copy of the pivot value above the pivot.
C4_Witness ==
    /\ pc = "returned"
    /\ \E i \in 0..(nslice - 1) : i > pivot /\ Elem(i) = Elem(pivot)

\* C5: partition panics exactly when the slice is shorter than 2: then it
\* leaves the slice as it was; on a slice of length >= 2 no assertion
\* fails, no index is out of bounds and no subtraction underflows, and the
\* value returned is an index of the slice.
C5_PanicIffShort ==
    pcalls > 0 =>
        /\ (fault # "none") <=> (nslice < 2)
        /\ (fault # "none") <=> (pc = "fault")
        /\ fault # "none" => fault = ShortSlice /\ slice = input
        /\ (mode = "partition" /\ Len(input) >= 2) => nslice = Len(input)
        /\ pc = "returned" => pivot \in 0..(nslice - 1)

\* partition was called on a one-element slice and has panicked.
C5_Witness ==
    /\ mode = "partition"
    /\ Len(input) = 1
    /\ pc = "fault"

\* C6: quicksort never panics; it only ever calls partition on a slice of
\* length >= 2; an input of length 0 or 1 is returned as it was without a
\* call of partition.
C6_QuicksortNeverPanics ==
    mode = "quicksort" =>
        /\ fault = "none"
        /\ pc # "fault"
        /\ pcalls > 0 => nslice >= 2
        /\ (pc = "done" /\ Len(input) <= 1) => (slice = input /\ pcalls = 0)

\* quicksort has returned after calling partition several times and
\* entering one-element and empty slices.
C6_Witness ==
    /\ mode = "quicksort"
    /\ pc = "done"
    /\ pcalls >= 3

\* C7: sorting the result of a sort gives that result again, and sorting a
\* non-decreasing sequence leaves it as it is.
C7_Idempotent ==
    (mode = "quicksort" /\ pc = "done" /\ (calls >= 2 \/ Sorted(input)))
        => slice = input

\* The second sort of an array has returned, after partitioning and
\* recursing on a sequence with distinct and with equal values.
C7_Witness ==
    /\ mode = "quicksort"
    /\ pc = "done"
    /\ calls = 2
    /\ pcalls >= 3
    /\ \E i, j \in DOMAIN input : input[i] # input[j]

\* C8: at the head of every iteration of partition's loop, (1) the value at
\* low_max is <= the value at high_min, (2) every element at 0..=low is <=
\* the value at low_max, (3) every element at high..n-1 is >= the value at
\* high_min.
C8_LoopInvariants ==
    pc = "loop" =>
        /\ Elem(low_max) <= Elem(high_min)
        /\ \A i \in 0..low : Elem(i) <= Elem(low_max)
        /\ \A i \in high..(nslice - 1) : Elem(i) >= Elem(high_min)

\* The loop head after a pass that placed both values high and found a new
\* minimum of the high partition.
C8_Witness ==
    /\ pc = "loop"
    /\ place = "HIGH"
    /\ high_min # nslice - 1
    /\ low > 0

\* The guarantees of C9 that a single step shows: a pass that goes on to
\* the next iteration reduces high - low by exactly 2, the loop is left
\* with high - low <= 3, and quicksort calls itself on a slice strictly
\* shorter than its own.
C9_Decrease ==
    /\ Iteration => (high' - low' = high - low - 2 /\ high - low > 3)
    /\ (pc = "loop" /\ pc' = "returned") => high - low <= 3
    /\ (Len(stack) >= 1 /\ Len(stack') = Len(stack) + 1) =>
           stack'[Len(stack')].len < stack[Len(stack)].len

\* C9: every call of quicksort returns and every call of partition on a
\* slice of length >= 2 returns; each pass of partition's loop that does
\* not return reduces high - low by exactly 2 until high - low <= 3, and
\* each recursive call of quicksort is on a strictly shorter slice.
C9_Terminates ==
    /\ (mode = "quicksort" /\ pc # "done") ~> (pc = "done")
    /\ (mode = "partition" /\ Len(input) >= 2) ~> (pc = "returned")
    /\ [][C9_Decrease]_vars

\* quicksort is two calls deep below the client's call, on a slice that is
\* shorter than its caller's.
C9_Witness ==
    /\ pc = "qs"
    /\ Len(stack) >= 3
    /\ stack[Len(stack)].len >= 2

\* C10: over one pass of the loop, with L = low + 1 and H = n - high at its
\* start: |L - H| grows only if the placement was forced; a split leaves
\* L - H as it was; a placement that was not forced and put both values on
\* one side reduces |L - H| by exactly 2 and leaves the receiving side no
\* larger than the other side.
C10_Balance ==
    [][Iteration =>
        LET d == NLow - NHigh
            d1 == (low' + 1) - (nslice' - high')
        IN  /\ Abs(d1) > Abs(d) => (ForcedLow \/ ForcedHigh)
            /\ place' = "SPLIT" => d1 = d
            /\ (place' = "LOW" /\ ~ForcedLow) =>
                   (Abs(d1) = Abs(d) - 2 /\ d1 <= 0)
            /\ (place' = "HIGH" /\ ~ForcedHigh) =>
                   (Abs(d1) = Abs(d) - 2 /\ d1 >= 0)
            /\ place' \in {"LOW", "HIGH", "SPLIT"}]_vars

\* The loop head after a pass that placed both values low although one of
\* them was not below the largest value the low partition had: a placement
\* made for balance.
C10_Witness ==
    /\ pc = "loop"
    /\ place = "LOW"
    /\ low >= 2
    /\ \E i \in {low - 1, low} :
           \A k \in 0..(low - 2) : Elem(i) >= Elem(k)

====
